---- MODULE Spec2Model ----
(***************************************************************************)
(* Workflow health analysis: the web client's mutation (App), the remote   *)
(* flow workflowHealthFlow and its two tools fetchWorkflows and            *)
(* fetchWorkflowRuns (apps/genkit/src/index.ts).                           *)
(*                                                                         *)
(* The generation model behind ai.generateStream and the source-control    *)
(* API are the environment: the first chooses the tool requests, the       *)
(* chunks and the final text, the second chooses each HTTP response.       *)
(***************************************************************************)
EXTENDS Integers, Sequences, FiniteSets, TLC

\* ------------------------------------------------------------------ bounds
\* Turns of the generation in one request (the last one has to answer).
MaxTurns == 3
\* Text chunks the generation produces in one request.
MaxChunks == 2
\* Longest workflow_runs array an upstream payload carries in ToolSpec.
MaxRuns == 3
\* Longest workflows array an upstream payload carries in ToolSpec.
MaxWorkflows == 2

\* ------------------------------------------------------------- JSON values
\* A decoded JSON value, tagged by its JavaScript type.
Num(n) == [t |-> "number", n |-> n]
Str(s) == [t |-> "string", s |-> s]
Null == [t |-> "null"]
Arr(a) == [t |-> "array", a |-> a]
Obj(o) == [t |-> "object", o |-> o]

\* ----------------------------------------------------------------- schemas
ZNumber == [k |-> "number"]
ZString == [k |-> "string"]
ZNullable(inner) == [k |-> "nullable", inner |-> inner]
ZArray(element) == [k |-> "array", element |-> element]
ZObject(shape) == [k |-> "object", shape |-> shape]

workflowSchema ==
  ZObject([id |-> ZNumber, name |-> ZString, path |-> ZString,
           state |-> ZString, created_at |-> ZString, updated_at |-> ZString,
           url |-> ZString, html_url |-> ZString, badge_url |-> ZString])

workflowRunSchema ==
  ZObject([id |-> ZNumber, name |-> ZString, status |-> ZString,
           conclusion |-> ZNullable(ZString), workflow_id |-> ZNumber,
           created_at |-> ZString, updated_at |-> ZString,
           run_started_at |-> ZNullable(ZString), html_url |-> ZString])

workflowsResponseSchema ==
  ZObject([total_count |-> ZNumber, workflows |-> ZArray(workflowSchema)])

workflowRunsResponseSchema ==
  ZObject([total_count |-> ZNumber, workflow_runs |-> ZArray(workflowRunSchema)])

\* schema.safeParse(v).success: every required key present and of its type;
\* a missing key is undefined, which no schema here accepts.
RECURSIVE Conforms(_, _)
Conforms(schema, v) ==
  CASE schema.k = "number" -> v.t = "number"
    [] schema.k = "string" -> v.t = "string"
    [] schema.k = "nullable" -> v.t = "null" \/ Conforms(schema.inner, v)
    [] schema.k = "array" ->
         /\ v.t = "array"
         /\ \A i \in DOMAIN v.a : Conforms(schema.element, v.a[i])
    [] schema.k = "object" ->
         /\ v.t = "object"
         /\ \A f \in DOMAIN schema.shape :
              f \in DOMAIN v.o /\ Conforms(schema.shape[f], v.o[f])

\* The data of a successful parse: unknown keys of an object are stripped.
RECURSIVE Strip(_, _)
Strip(schema, v) ==
  CASE schema.k = "array" ->
         Arr([i \in DOMAIN v.a |-> Strip(schema.element, v.a[i])])
    [] schema.k = "object" ->
         Obj([f \in DOMAIN schema.shape |-> Strip(schema.shape[f], v.o[f])])
    [] OTHER -> v

\* A parse that drops the array elements that do not conform and keeps the
\* rest, instead of failing.
ParseSkippingBadRecords(schema, v) ==
  LET RECURSIVE Keep(_, _)
      Keep(el, s) ==
        IF s = <<>> THEN <<>>
        ELSE IF Conforms(el, Head(s))
             THEN <<Strip(el, Head(s))>> \o Keep(el, Tail(s))
             ELSE Keep(el, Tail(s))
      Field(f) ==
        IF schema.shape[f].k = "array" /\ f \in DOMAIN v.o /\ v.o[f].t = "array"
        THEN Arr(Keep(schema.shape[f].element, v.o[f].a))
        ELSE v.o[f]
      Lenient == Obj([f \in DOMAIN schema.shape |-> Field(f)])
  IN  IF schema.k = "object" /\ v.t = "object"
         /\ \A f \in DOMAIN schema.shape : f \in DOMAIN v.o
         /\ Conforms(schema, Lenient)
      THEN [success |-> TRUE, data |-> Lenient]
      ELSE [success |-> FALSE]

\* schema.parse(v): the stripped data, or a ZodError for the whole value.
Parse(schema, v) ==
  IF Conforms(schema, v)
  THEN [success |-> TRUE, data |-> Strip(schema, v)]
  ELSE [success |-> FALSE]

\* ------------------------------------------------------------ HTTP responses
\* response.json() of a body that is not JSON rejects.
NotJson == [t |-> "notjson"]

\* response.ok: the status is in the range 200-299.
ResponseOk(response) == response.status \in 200..299

\* A returned value and a thrown error, as the outcome of a handler.
Return(value) == [ok |-> TRUE, value |-> value]
Throw(error) == [ok |-> FALSE, error |-> error]

\* An error that leaves the status text out of its message.
WorkflowsFetchErrorNoText(response) ==
  [name |-> "Error", message |-> <<"Failed to fetch workflows from GitHub: ">>]

\* new Error(`...: ${response.statusText}`): a name and a message, the
\* message being the fixed prefix followed by the status text.
WorkflowsFetchError(response) ==
  [name |-> "Error",
   message |-> <<"Failed to fetch workflows from GitHub: ", response.statusText>>]
RunsFetchError(response) ==
  [name |-> "Error",
   message |-> <<"Failed to fetch workflow runs from GitHub: ", response.statusText>>]
SyntaxError == [name |-> "SyntaxError"]
ZodError == [name |-> "ZodError"]

\* ------------------------------------------------------------------- tools
WorkflowFields ==
  {"id", "name", "path", "state", "created_at", "updated_at", "url",
   "html_url", "badge_url"}
RunFields ==
  {"id", "name", "status", "conclusion", "workflow_id", "created_at",
   "updated_at", "run_started_at", "html_url"}

\* The runs mapped last to first: the payload's order reversed.
MapRunsReversed(runs) ==
  [i \in DOMAIN runs |->
     [f \in RunFields |-> runs[Len(runs) + 1 - i].o[f]]]

\* parsed.workflows.map((workflow) => ({id: workflow.id, ...}))
MapWorkflows(workflows) ==
  [i \in DOMAIN workflows |-> [f \in WorkflowFields |-> workflows[i].o[f]]]

\* parsed.workflow_runs.map((run) => ({id: run.id, ...}))
MapRuns(runs) ==
  [i \in DOMAIN runs |-> [f \in RunFields |-> runs[i].o[f]]]

\* The handler of fetchWorkflows from the response on.
fetchWorkflows(response) ==
  IF ~ResponseOk(response) THEN Throw(WorkflowsFetchError(response))
  ELSE IF response.body = NotJson THEN Throw(SyntaxError)
  ELSE LET parsed == Parse(workflowsResponseSchema, response.body)
       IN  IF ~parsed.success THEN Throw(ZodError)
           ELSE Return(MapWorkflows(parsed.data.o.workflows.a))

\* The handler of fetchWorkflowRuns from the response on.
fetchWorkflowRuns(response) ==
  IF ~ResponseOk(response) THEN Throw(RunsFetchError(response))
  ELSE IF response.body = NotJson THEN Throw(SyntaxError)
  ELSE LET parsed == Parse(workflowRunsResponseSchema, response.body)
       IN  IF ~parsed.success THEN Throw(ZodError)
           ELSE Return(MapRuns(parsed.data.o.workflow_runs.a))

Handler(tool, response) ==
  IF tool = "fetchWorkflows" THEN fetchWorkflows(response)
  ELSE fetchWorkflowRuns(response)

\* ------------------------------------------------- payloads of the upstream
\* created_at values, in chronological order: TimeOf gives a value's rank.
Timestamps ==
  <<"2024-01-01T00:00:00Z", "2024-01-02T00:00:00Z", "2024-01-03T00:00:00Z",
    "2024-01-04T00:00:00Z">>
TimeOf(ts) == CHOOSE i \in DOMAIN Timestamps : Timestamps[i] = ts.s

\* A workflow and a run as the API lists them: the fields of the schema and
\* fields the schema does not name (node_id).
WorkflowObject(id) ==
  Obj([id |-> Num(id), node_id |-> Str("W_kw"), name |-> Str("CI"),
       path |-> Str(".github/workflows/ci.yml"), state |-> Str("active"),
       created_at |-> Str(Timestamps[1]), updated_at |-> Str(Timestamps[2]),
       url |-> Str("url"), html_url |-> Str("html_url"),
       badge_url |-> Str("badge_url")])

RunObject(id, created, conclusion) ==
  Obj([id |-> Num(id), node_id |-> Str("WFR_kw"), name |-> Str("CI"),
       status |-> IF conclusion = Null THEN Str("in_progress") ELSE Str("completed"),
       conclusion |-> conclusion, workflow_id |-> Num(1),
       created_at |-> Str(created), updated_at |-> Str(created),
       run_started_at |-> IF conclusion = Null THEN Null ELSE Str(created),
       html_url |-> Str("html_url")])

\* One field of a record made wrong: absent, null, or of the other primitive
\* type.
Damages == {"missing", "null", "wrongType"}
Damage(obj, f, how) ==
  CASE how = "missing" ->
         Obj([g \in (DOMAIN obj.o) \ {f} |-> obj.o[g]])
    [] how = "null" -> Obj([obj.o EXCEPT ![f] = Null])
    [] how = "wrongType" ->
         Obj([obj.o EXCEPT ![f] = IF @.t = "number" THEN Str("1") ELSE Num(1)])

SeqsUpTo(S, n) == UNION {[1..k -> S] : k \in 0..n}

\* Every array of up to n records of S, and each of them with one field of one
\* record damaged.
ArraysOf(S, fields, n) ==
  LET sound == SeqsUpTo(S, n)
  IN  sound \cup
      UNION {{[a EXCEPT ![i] = Damage(a[i], f, how)] :
                 i \in DOMAIN a, f \in fields, how \in Damages} : a \in sound}

WorkflowObjects == {WorkflowObject(id) : id \in 1..2}
RunObjects ==
  { RunObject(1, Timestamps[1], Str("success")),
    RunObject(2, Timestamps[2], Str("failure")),
    RunObject(3, Timestamps[3], Null) }

\* Bodies of a 2xx answer: the envelope around each array, and envelopes that
\* are themselves wrong.
EnvelopesOf(key, arrays) ==
  {Obj((key :> Arr(a)) @@ [total_count |-> Num(Len(a))]) : a \in arrays}
    \cup {Obj(key :> Arr(<<>>)),
          Obj((key :> Null) @@ [total_count |-> Num(0)]),
          Obj((key :> Arr(<<>>)) @@ [total_count |-> Str("0")]),
          Obj([message |-> Str("Not Found")]),
          Null, NotJson}

WorkflowsBodies ==
  EnvelopesOf("workflows", ArraysOf(WorkflowObjects, WorkflowFields, MaxWorkflows))
WorkflowRunsBodies ==
  EnvelopesOf("workflow_runs", ArraysOf(RunObjects, RunFields, MaxRuns))

\* Answers that are not 2xx: any status text, and a body that may even have
\* the shape of a good payload.
NonOkStatuses == {304, 403, 404, 500}
StatusTexts == {"", "Forbidden", "Not Found"}
NonOkResponses(key, record) ==
  [status : NonOkStatuses, statusText : StatusTexts,
   body : {NotJson, Obj([message |-> Str("Not Found")]),
           Obj((key :> Arr(<<record>>)) @@ [total_count |-> Num(1)])}]

OkResponses(bodies) == [status : {200}, statusText : {"OK"}, body : bodies]

WorkflowsResponses ==
  OkResponses(WorkflowsBodies) \cup NonOkResponses("workflows", WorkflowObject(1))
WorkflowRunsResponses ==
  OkResponses(WorkflowRunsBodies)
    \cup NonOkResponses("workflow_runs", RunObject(1, Timestamps[1], Str("success")))

\* ------------------------------------------------------------------- state
VARIABLES
  upstream,     \* the repository as the source-control API holds it
  caller,       \* "none", "web" (App.workflowHealthMutation) or "direct"
  repoInput,    \* the text given to mutationFn
  clientPc,     \* mutationFn: "idle", "awaitCallable", "success", "error"
  mutationData, \* what mutationFn returned (result.data)
  request,      \* the data of the call of workflowHealthFunction
  flowPc,       \* workflowHealthFlow: "idle", "called", "forAwait", "returned", "rejected"
  genPc,        \* ai.generateStream: "idle", "model", "tools", "done", "failed"
  turn,         \* the generation's turn, from 1
  stream,       \* chunks produced and not yet taken by the for await loop
  produced,     \* every chunk produced, in production order
  callbackLog,  \* the chunks passed to streamCallback, in call order
  wire,         \* the chunks sent on to the caller of the remote operation
  pending,      \* tool requests whose HTTP request is in flight
  toolLog,      \* tool calls that ended: request, response, outcome
  text,         \* the text of the generation's response
  output        \* what the flow returned

vars ==
  <<upstream, caller, repoInput, clientPc, mutationData, request, flowPc,
    genPc, turn, stream, produced, callbackLog, wire, pending, toolLog, text,
    output>>

clientVars == <<caller, repoInput, clientPc, mutationData>>
flowVars == <<request, flowPc, output>>
genVars == <<genPc, turn, text>>
chunkVars == <<stream, produced, callbackLog, wire>>
toolVars == <<pending, toolLog>>

NoInput == <<"(none)">>
NoRequest == [none |-> TRUE]
NoData == <<"(none)">>

\* ------------------------------------------------------ the tools, alone
\* One call of a tool on one answer of the upstream.
ToolRequest(tool, owner, repo, workflowId) ==
  [tool |-> tool, owner |-> owner, repo |-> repo, workflowId |-> workflowId]

LogEntry(req, response) ==
  [request |-> req, response |-> response,
   result |-> Handler(req.tool, response)]

CallFetchWorkflows ==
  /\ toolLog = <<>>
  /\ \E response \in WorkflowsResponses :
       toolLog' = <<LogEntry(ToolRequest("fetchWorkflows", <<"a">>, <<"a">>, 0),
                             response)>>
  /\ UNCHANGED <<upstream, clientVars, flowVars, genVars, chunkVars, pending>>

CallFetchWorkflowRuns ==
  /\ toolLog = <<>>
  /\ \E response \in WorkflowRunsResponses :
       toolLog' = <<LogEntry(ToolRequest("fetchWorkflowRuns", <<"a">>, <<"a">>, 1),
                             response)>>
  /\ UNCHANGED <<upstream, clientVars, flowVars, genVars, chunkVars, pending>>

\* ------------------------------------------------------------ the web client
\* Text is a sequence of characters.
Undefined == [t |-> "undefined"]

\* repoInput.split('/'): the pieces between the separators, at least one.
RECURSIVE Split(_, _)
Split(s, sep) ==
  IF \A i \in DOMAIN s : s[i] # sep THEN <<s>>
  ELSE LET k == CHOOSE i \in DOMAIN s :
                  s[i] = sep /\ \A j \in 1..(i - 1) : s[j] # sep
       IN  <<SubSeq(s, 1, k - 1)>> \o Split(SubSeq(s, k + 1, Len(s)), sep)

\* s.trim(): without the white space at either end.
RECURSIVE Trim(_)
Trim(s) ==
  IF s = <<>> THEN s
  ELSE IF Head(s) = " " THEN Trim(Tail(s))
  ELSE IF s[Len(s)] = " " THEN Trim(SubSeq(s, 1, Len(s) - 1))
  ELSE s

\* const [owner, repo] = repoInput.split('/').map(s => s.trim())
Destructure(input) ==
  LET parts == Split(input, "/")
      At(i) == IF i <= Len(parts) THEN Str(Trim(parts[i])) ELSE Undefined
  IN  [owner |-> At(1), repo |-> At(2)]

\* !x of an optional text: undefined and the empty text are falsy.
Falsy(x) == x.t = "undefined" \/ x.s = <<>>

\* if (!owner || !repo) throw ...
RejectedByClient(input) ==
  Falsy(Destructure(input).owner) \/ Falsy(Destructure(input).repo)

RepoInputs ==
  { <<>>, <<"a">>, <<"/">>, <<"a", "/">>, <<"/", "a">>, <<" ", "/", "a">>,
    <<"a", "/", " ">>, <<" ", "a", "/", "a", " ">> }

\* The calls of the remote operation that do not come from the web client.
DirectRequests ==
  { [owner |-> <<>>, repo |-> <<"a">>, streaming |-> FALSE],
    [owner |-> <<"a">>, repo |-> <<>>, streaming |-> FALSE],
    [owner |-> <<"a">>, repo |-> <<"a">>, streaming |-> TRUE] }

\* mutationFn up to the await of the callable: the check, then the call
\* callable({ owner, repo }), which asks for no streaming.
ClientSubmit ==
  /\ caller = "none"
  /\ \E input \in RepoInputs :
       /\ repoInput' = input
       /\ caller' = "web"
       /\ IF RejectedByClient(input)
          THEN /\ clientPc' = "error"
               /\ UNCHANGED <<request, flowPc>>
          ELSE /\ clientPc' = "awaitCallable"
               /\ request' = [owner |-> Destructure(input).owner.s,
                              repo |-> Destructure(input).repo.s,
                              streaming |-> FALSE]
               /\ flowPc' = "called"
  /\ UNCHANGED <<upstream, mutationData, output, genVars, chunkVars, toolVars>>

\* A call of workflowHealthFunction by another caller: the input schema asks
\* for two strings and nothing more.
DirectCall ==
  /\ caller = "none"
  /\ \E r \in DirectRequests :
       /\ request' = r
       /\ caller' = "direct"
       /\ flowPc' = "called"
  /\ UNCHANGED <<upstream, repoInput, clientPc, mutationData, output, genVars,
                 chunkVars, toolVars>>

\* const result = await callable(...); return result.data  (then onSuccess)
CallableResolve ==
  /\ caller = "web" /\ clientPc = "awaitCallable" /\ flowPc = "returned"
  /\ mutationData' = output
  /\ clientPc' = "success"
  /\ UNCHANGED <<upstream, caller, repoInput, flowVars, genVars, chunkVars,
                 toolVars>>

\* The callable rejects: mutationFn throws (then onError).
CallableReject ==
  /\ caller = "web" /\ clientPc = "awaitCallable" /\ flowPc = "rejected"
  /\ clientPc' = "error"
  /\ UNCHANGED <<upstream, caller, repoInput, mutationData, flowVars, genVars,
                 chunkVars, toolVars>>

\* ------------------------------------------------------------ the upstream
\* Run histories as the API lists them, newest first.
FailingLately ==
  << RunObject(4, Timestamps[4], Str("failure")),
     RunObject(3, Timestamps[3], Str("failure")),
     RunObject(2, Timestamps[2], Str("failure")),
     RunObject(1, Timestamps[1], Str("success")) >>
AllGreen ==
  << RunObject(2, Timestamps[2], Str("success")),
     RunObject(1, Timestamps[1], Str("success")) >>
Running == << RunObject(1, Timestamps[4], Null) >>

EmptyRepository == [workflows |-> <<>>, runs |-> <<>>]
ThreeWorkflows ==
  [workflows |-> <<1, 2, 3>>, runs |-> <<FailingLately, AllGreen, Running>>]
Repositories == {EmptyRepository, ThreeWorkflows}
WorkflowIds == 1..3

ListingBody(repository) ==
  Obj([total_count |-> Num(Len(repository.workflows)),
       workflows |-> Arr([i \in DOMAIN repository.workflows |->
                            WorkflowObject(repository.workflows[i])])])
RunsBody(history) ==
  Obj([total_count |-> Num(Len(history)), workflow_runs |-> Arr(history)])

Ok(body) == [status |-> 200, statusText |-> "OK", body |-> body]
NotFound ==
  [status |-> 404, statusText |-> "Not Found",
   body |-> Obj([message |-> Str("Not Found")])]
RateLimited ==
  [status |-> 403, statusText |-> "Forbidden",
   body |-> Obj([message |-> Str("API rate limit exceeded")])]
ServerError == [status |-> 500, statusText |-> "", body |-> NotJson]

\* What the API may answer to the request a tool sends.
UpstreamAnswers(req) ==
  IF req.owner = <<>> \/ req.repo = <<>> THEN {NotFound}
  ELSE IF req.tool = "fetchWorkflows"
       THEN {Ok(ListingBody(upstream)), RateLimited}
  ELSE IF req.workflowId \in DOMAIN upstream.runs
       THEN {Ok(RunsBody(upstream.runs[req.workflowId])), ServerError}
  ELSE {NotFound}

\* --------------------------------------------------------- the generation
\* One entry of the "workflows" array of the text the prompt asks for.
\* The entries the model is let to write here: some right, some wrong.
Assessments ==
  { [workflow |-> 1, status |-> "Healthy", statusPercentage |-> 80],
    [workflow |-> 2, status |-> "At Risk", statusPercentage |-> 80],
    [workflow |-> 3, status |-> "Need Improvement", statusPercentage |-> 50] }

TextChunk(t, a) == [turn |-> t, kind |-> "text", assessment |-> a]

\* The text chunks of turn t, in production order.
RECURSIVE TextOf(_, _)
TextOf(chunks, t) ==
  IF chunks = <<>> THEN <<>>
  ELSE IF Head(chunks).turn = t /\ Head(chunks).kind = "text"
       THEN <<Head(chunks).assessment>> \o TextOf(Tail(chunks), t)
       ELSE TextOf(Tail(chunks), t)

\* The requests the model can make of the two tools, for the repository the
\* prompt names; none is made twice in a request.
Requested == pending \cup {toolLog[i].request : i \in DOMAIN toolLog}
ModelToolRequests ==
  ({ToolRequest("fetchWorkflows", request.owner, request.repo, 0)}
     \cup {ToolRequest("fetchWorkflowRuns", request.owner, request.repo, id) :
             id \in WorkflowIds})
    \ Requested

\* What one turn asks for: first the listing, then the runs of some
\* workflows, as the prompt tells the model to.
ModelTurnRequests ==
  {reqs \in (SUBSET ModelToolRequests) \ {{}} :
     \A r \in reqs : (r.tool = "fetchWorkflows") = (Requested = {})}

\* The flow is entered: ai.generateStream(...) starts the generation.
FlowStart ==
  /\ flowPc = "called"
  /\ flowPc' = "forAwait"
  /\ genPc' = "model"
  /\ turn' = 1
  /\ UNCHANGED <<upstream, clientVars, request, output, text, chunkVars, toolVars>>

\* The model produces a piece of text.
ModelEmitChunk ==
  /\ genPc = "model"
  /\ Cardinality({i \in DOMAIN produced : produced[i].kind = "text"}) < MaxChunks
  /\ \E a \in Assessments :
       /\ stream' = Append(stream, TextChunk(turn, a))
       /\ produced' = Append(produced, TextChunk(turn, a))
  /\ UNCHANGED <<upstream, clientVars, flowVars, genVars, callbackLog, wire,
                 toolVars>>

\* The model ends its turn asking for tools: each handler runs at once and
\* sends its HTTP request.
ModelRequestTools ==
  /\ genPc = "model"
  /\ turn < MaxTurns
  /\ \E reqs \in ModelTurnRequests : pending' = reqs
  /\ genPc' = "tools"
  /\ UNCHANGED <<upstream, clientVars, flowVars, turn, text, chunkVars, toolLog>>

\* The answer to one request arrives and its handler ends. A handler that
\* throws fails the generation; the last one to return starts the next turn.
ToolComplete ==
  /\ genPc = "tools"
  /\ \E req \in pending : \E response \in UpstreamAnswers(req) :
       LET entry == LogEntry(req, response)
       IN  /\ toolLog' = Append(toolLog, entry)
           /\ pending' = pending \ {req}
           /\ IF ~entry.result.ok
              THEN genPc' = "failed" /\ turn' = turn
              ELSE IF pending = {req}
              THEN genPc' = "model" /\ turn' = turn + 1
              ELSE genPc' = "tools" /\ turn' = turn
  /\ UNCHANGED <<upstream, clientVars, flowVars, text, chunkVars>>

\* The model ends its turn with no tool request: the response's text is the
\* text of this last message.
ModelFinish ==
  /\ genPc = "model"
  /\ genPc' = "done"
  /\ text' = TextOf(produced, turn)
  /\ UNCHANGED <<upstream, clientVars, flowVars, turn, chunkVars, toolVars>>

\* ---------------------------------------------------------------- the flow
\* A loop that ends as soon as the generation has, chunks left or not.
StreamEndedEarly == genPc = "done"

\* The for await loop ends when the stream is closed and drained.
StreamEnded == genPc = "done" /\ stream = <<>>

\* The chunk the loop takes next.
NextChunk(s) == Head(s)

\* What onCallGenkit sends the caller for a chunk given to streamCallback:
\* the chunk, to a caller that asked for streaming.
Sent(chunk) == IF request.streaming THEN <<chunk>> ELSE <<>>

\* for await (const chunk of stream) { streamCallback(chunk); }
FlowForwardChunk ==
  /\ flowPc = "forAwait"
  /\ stream # <<>>
  /\ callbackLog' = Append(callbackLog, NextChunk(stream))
  /\ wire' = wire \o Sent(NextChunk(stream))
  /\ stream' = Tail(stream)
  /\ UNCHANGED <<upstream, clientVars, flowVars, genVars, produced, toolVars>>

\* const { text } = await response; return text;
FlowReturn ==
  /\ flowPc = "forAwait"
  /\ StreamEnded
  /\ output' = text
  /\ flowPc' = "returned"
  /\ UNCHANGED <<upstream, clientVars, request, genVars, chunkVars, toolVars>>

\* The generation failed: the loop (or the await) throws and the flow rejects.
FlowReject ==
  /\ flowPc = "forAwait"
  /\ genPc = "failed"
  /\ flowPc' = "rejected"
  /\ UNCHANGED <<upstream, clientVars, request, output, genVars, chunkVars,
                 toolVars>>

\* ------------------------------------------------------------ specifications
Init ==
  /\ upstream \in Repositories
  /\ caller = "none"
  /\ repoInput = NoInput
  /\ clientPc = "idle"
  /\ mutationData = NoData
  /\ request = NoRequest
  /\ flowPc = "idle"
  /\ genPc = "idle"
  /\ turn = 0
  /\ stream = <<>>
  /\ produced = <<>>
  /\ callbackLog = <<>>
  /\ wire = <<>>
  /\ pending = {}
  /\ toolLog = <<>>
  /\ text = <<>>
  /\ output = NoData

Next ==
  \/ ClientSubmit
  \/ DirectCall
  \/ FlowStart
  \/ ModelEmitChunk
  \/ ModelRequestTools
  \/ ToolComplete
  \/ ModelFinish
  \/ FlowForwardChunk
  \/ FlowReturn
  \/ FlowReject
  \/ CallableResolve
  \/ CallableReject

\* A request from the client's input to the end of the mutation.
Spec == Init /\ [][Next]_vars

ToolNext == CallFetchWorkflows \/ CallFetchWorkflowRuns

\* Each tool applied once to each answer the upstream can give.
ToolInit == Init /\ upstream = EmptyRepository
ToolSpec == ToolInit /\ [][ToolNext]_vars

\* ================================================================== claims
\* The tool calls that ended, and the array a payload carries for a tool.
Ended == {toolLog[i] : i \in DOMAIN toolLog}
ArrayKey(tool) == IF tool = "fetchWorkflows" THEN "workflows" ELSE "workflow_runs"
CarriesArray(e) ==
  /\ ResponseOk(e.response)
  /\ e.response.body.t = "object"
  /\ DOMAIN e.response.body.o = {"total_count", ArrayKey(e.request.tool)}
  /\ e.response.body.o.total_count.t = "number"
  /\ e.response.body.o[ArrayKey(e.request.tool)].t = "array"
Records(e) == e.response.body.o[ArrayKey(e.request.tool)].a

\* The types a field of a record may have, as the data model states them:
\* identifiers are numbers, conclusion and run_started_at may be null, the
\* rest is text.
TypesOf(f) ==
  CASE f \in {"id", "workflow_id"} -> {"number"}
    [] f \in {"conclusion", "run_started_at"} -> {"string", "null"}
    [] OTHER -> {"string"}
RequiredFields(tool) ==
  IF tool = "fetchWorkflows" THEN WorkflowFields ELSE RunFields
Malformed(tool, rec) ==
  \E f \in RequiredFields(tool) :
    f \notin DOMAIN rec.o \/ rec.o[f].t \notin TypesOf(f)

\* ---- C7
\* C7 (as stated): after a non-2xx answer the error carries the response's
\* status: the same answer with another status gives another error.
C7_ErrorCarriesStatus ==
  \A e \in Ended :
    ~ResponseOk(e.response) =>
      /\ ~e.result.ok
      /\ \A st \in NonOkStatuses \ {e.response.status} :
           Handler(e.request.tool, [e.response EXCEPT !.status = st]) # e.result

\* C7 (amended): for both tools, a non-2xx answer makes the handler throw an
\* Error whose message ends with the response's status text; the body is not
\* looked at (neither a parse error nor a sequence comes out of it).
C7_NonOkThrowsWithStatusText ==
  \A e \in Ended :
    e.response.status \notin 200..299 =>
      /\ ~e.result.ok
      /\ e.result.error.name = "Error"
      /\ Len(e.result.error.message) = 2
      /\ e.result.error.message[2] = e.response.statusText

\* A 404 whose body has the shape of a good payload went through a tool.
C7_Witness ==
  \E e \in Ended :
    /\ e.response.status = 404
    /\ e.response.statusText = "Not Found"
    /\ e.response.body.t = "object"
    /\ ArrayKey(e.request.tool) \in DOMAIN e.response.body.o
    /\ ~e.result.ok

\* ---- C8
\* C8: a 2xx payload with any record that lacks a required field, or holds
\* it with the wrong type or null where null is not allowed, makes the tool
\* fail as a whole with the schema error: no record of it is returned.
C8_MalformedRecordFailsWhole ==
  \A e \in Ended :
    (CarriesArray(e)
       /\ \E i \in DOMAIN Records(e) : Malformed(e.request.tool, Records(e)[i]))
      => (~e.result.ok /\ e.result.error = ZodError)

\* A payload of several records, one of them a run without id, was rejected.
C8_Witness ==
  \E e \in Ended :
    /\ e.request.tool = "fetchWorkflowRuns"
    /\ CarriesArray(e)
    /\ Len(Records(e)) >= 2
    /\ Cardinality({i \in DOMAIN Records(e) :
                      Malformed(e.request.tool, Records(e)[i])}) = 1
    /\ \E i \in DOMAIN Records(e) : "id" \notin DOMAIN Records(e)[i].o
    /\ ~e.result.ok

\* ---- C10
\* per_page=100 of the request's URL.
PerPage == 100

Ascending(runs) ==
  \A i, j \in DOMAIN runs :
    i < j => TimeOf(runs[i].created_at) <= TimeOf(runs[j].created_at)
Descending(runs) ==
  \A i, j \in DOMAIN runs :
    i < j => TimeOf(runs[i].created_at) >= TimeOf(runs[j].created_at)

\* C10 (as stated): whatever the payload's order, fetchWorkflowRuns returns
\* the runs in chronological order of created_at, at most 100 of them.
C10_ReturnsChronological ==
  \A e \in Ended :
    (e.request.tool = "fetchWorkflowRuns" /\ e.result.ok) =>
      /\ Ascending(e.result.value) \/ Descending(e.result.value)
      /\ Len(e.result.value) <= PerPage

\* C10 (amended): fetchWorkflowRuns returns the runs of the payload, all of
\* them and in the payload's order (chronological exactly when the payload
\* is); the handler itself neither sorts nor cuts the list.
C10_ReturnsPayloadOrder ==
  \A e \in Ended :
    (e.request.tool = "fetchWorkflowRuns" /\ e.result.ok) =>
      /\ Len(e.result.value) = Len(Records(e))
      /\ \A i \in DOMAIN Records(e) :
           /\ e.result.value[i].id = Records(e)[i].o.id
           /\ e.result.value[i].created_at = Records(e)[i].o.created_at
           /\ DOMAIN e.result.value[i] = RunFields

\* Three runs listed neither oldest first nor newest first were returned.
C10_Witness ==
  \E e \in Ended :
    /\ e.request.tool = "fetchWorkflowRuns" /\ e.result.ok
    /\ Len(e.result.value) = 3
    /\ ~Ascending(e.result.value) /\ ~Descending(e.result.value)

\* ---- the request as a whole
Listings == {e \in Ended : e.request.tool = "fetchWorkflows" /\ e.result.ok}
RunsOutcome(id, ok) ==
  \E e \in Ended :
    /\ e.request.tool = "fetchWorkflowRuns"
    /\ e.request.workflowId = id
    /\ e.result.ok = ok

\* ---- C1
\* The text names an owner and a repository: a '/' with something that is
\* not white space before it and after it.
NamesOwnerAndRepo(input) ==
  \E k \in DOMAIN input :
    /\ input[k] = "/"
    /\ \A i \in 1..(k - 1) : input[i] # "/"
    /\ \E i \in 1..(k - 1) : input[i] # " "
    /\ \E j \in (k + 1)..Len(input) :
         /\ input[j] \notin {" ", "/"}
         /\ \A m \in (k + 1)..j : input[m] # "/"

InvalidIdentifier ==
  \/ caller = "web" /\ ~NamesOwnerAndRepo(repoInput)
  \/ caller = "direct" /\ (request.owner = <<>> \/ request.repo = <<>>)

\* C1: a request whose repository identifier is not a non-empty owner/repo
\* pair fails before any network call: the web client calls no remote
\* function for it, and no tool sends a request to the API for it.
C1_InvalidInputNeverReachesNetwork ==
  InvalidIdentifier =>
    /\ Requested = {}
    /\ caller = "web" => (request = NoRequest /\ clientPc = "error")

\* Beside C1: what the web client does check. An input with no '/', or with
\* nothing but white space before or after it, ends mutationFn in its error
\* before the remote function is called.
ClientRejectsBeforeCalling ==
  (caller = "web" /\ ~NamesOwnerAndRepo(repoInput)) =>
    (request = NoRequest /\ clientPc = "error" /\ Requested = {})

\* ---- C2
\* C2: with the runs of workflow 2 failing and those of 1 and 3 fetched, the
\* request is not aborted, and the report it returns assesses 1 and 3.
C2_PartialFailureIsolated ==
  (Listings # {} /\ RunsOutcome(1, TRUE) /\ RunsOutcome(2, FALSE)
     /\ RunsOutcome(3, TRUE))
    => /\ flowPc # "rejected"
       /\ flowPc = "returned" =>
            \A w \in {1, 3} : \E i \in DOMAIN output : output[i].workflow = w

\* ---- C3
\* The place of a workflow in what fetchWorkflows returned.
PlaceIn(listing, w) ==
  CHOOSE i \in DOMAIN listing : listing[i].id.n = w

\* C3: the assessments of the returned report follow the order in which
\* fetchWorkflows returned the workflows, in whatever order the runs came in.
C3_ReportFollowsListingOrder ==
  \A e \in Listings :
    (/\ flowPc = "returned"
     /\ \A i, j \in DOMAIN output :
          i # j => output[i].workflow # output[j].workflow
     /\ \A i \in DOMAIN output :
          /\ \E k \in DOMAIN e.result.value :
               e.result.value[k].id.n = output[i].workflow
          /\ RunsOutcome(output[i].workflow, TRUE))
      => \A i, j \in DOMAIN output :
           i < j => PlaceIn(e.result.value, output[i].workflow)
                      < PlaceIn(e.result.value, output[j].workflow)

\* ---- C5
\* The ranges the prompt gives for the three statuses.
Bucket(percentage) ==
  CASE percentage \in 80..100 -> "Healthy"
    [] percentage \in 50..79 -> "Need Improvement"
    [] percentage \in 0..49 -> "At Risk"
    [] OTHER -> "(none)"

\* C5: in every report the flow returns, each assessment's status is the
\* one whose range holds its statusPercentage, which is within 0..100.
C5_BucketMatchesPercentage ==
  flowPc = "returned" =>
    \A i \in DOMAIN output :
      /\ output[i].statusPercentage \in 0..100
      /\ output[i].status = Bucket(output[i].statusPercentage)

\* ---- C6
Completed(runs) ==
  {i \in DOMAIN runs :
     runs[i].conclusion.t = "string"
       /\ runs[i].conclusion.s \in {"success", "failure"}}
MostRecentCompleted(runs, n) ==
  {i \in Completed(runs) :
     Cardinality({j \in Completed(runs) :
                    TimeOf(runs[j].created_at) > TimeOf(runs[i].created_at)}) < n}
FailureStreak(runs) ==
  /\ Cardinality(Completed(runs)) >= 3
  /\ \A i \in MostRecentCompleted(runs, 3) : runs[i].conclusion.s = "failure"

\* C6: a workflow whose three most recent completed runs all failed is never
\* reported Healthy, and its statusPercentage is below 80.
C6_FailureStreakNeverHealthy ==
  flowPc = "returned" =>
    \A i \in DOMAIN output : \A e \in Ended :
      (/\ e.request.tool = "fetchWorkflowRuns"
       /\ e.request.workflowId = output[i].workflow
       /\ e.result.ok
       /\ FailureStreak(e.result.value))
        => (output[i].status # "Healthy" /\ output[i].statusPercentage < 80)

\* ---- C9
\* C9: once the listing came back empty, no runs are asked for,
\* no error is raised and the report returned is empty.
C9_EmptyListingEmptyReport ==
  (\E e \in Listings : e.result.value = <<>>) =>
    /\ \A r \in Requested : r.tool # "fetchWorkflowRuns"
    /\ flowPc # "rejected"
    /\ flowPc = "returned" => output = <<>>

\* Beside C9: the part of it that is the tool's own. For a 2xx payload whose
\* workflows array is empty, fetchWorkflows returns the empty sequence and
\* throws nothing.
EmptyListingReturnsEmpty ==
  \A e \in Ended :
    (e.request.tool = "fetchWorkflows" /\ CarriesArray(e) /\ Records(e) = <<>>)
      => (e.result.ok /\ e.result.value = <<>>)

\* ---- C4
\* C4 (as stated): the chunks reach streamCallback in production order and
\* all of them before the flow returns, and while tool requests are still in
\* flight the web client, caller of the remote operation, has observed what
\* was passed on so far.
C4_CallerObservesPartialOutput ==
  /\ callbackLog \o stream = produced
  /\ flowPc = "returned" => callbackLog = produced
  /\ (caller = "web" /\ pending # {}) => wire = callbackLog

\* C4 (amended): every chunk of the generation is passed to streamCallback,
\* in production order, before the flow returns the final text. They travel
\* on only to a caller that asked for streaming: the web client, which
\* awaits callable({owner, repo}), observes nothing but the final text.
C4_ChunksReachCallbackBeforeReturn ==
  /\ callbackLog \o stream = produced
  /\ flowPc = "returned" => callbackLog = produced
  /\ caller = "web" =>
       /\ wire = <<>>
       /\ mutationData = IF clientPc = "success" THEN output ELSE NoData
  /\ (caller = "direct" /\ request.streaming) => wire = callbackLog

\* The web client got the final text of a request in which one chunk was
\* produced before a round of tool calls and one after it.
C4_Witness ==
  /\ caller = "web" /\ clientPc = "success"
  /\ Len(callbackLog) = 2
  /\ callbackLog[1].turn < callbackLog[2].turn
  /\ toolLog # <<>>

====
